---- MODULE Spec2Model ----
(***************************************************************************)
(* Model of server.js: the demand-driven upstream (AISStream) connection   *)
(* lifecycle, the reconnect timer and the fan-out to subscriber sockets.   *)
(*                                                                         *)
(* Every event-loop callback of the program is one atomic action: Node     *)
(* runs a callback to completion before the next one starts.  The upstream *)
(* transports and the subscriber sockets are the environment: they decide  *)
(* when a handshake completes, fails, or a close is reported, and their    *)
(* callbacks interleave freely with subscriber events and timer firings.   *)
(***************************************************************************)
EXTENDS Integers, Sequences, FiniteSets, Bags, TLC

\* ---------------------------------------------------------------- bounds
MaxSockets == 3     \* upstream transports created in one run
MaxClients == 2     \* subscriber sockets registered at the same time
MaxMsg     == 2     \* distinct upstream payloads
MaxDocs    == 2     \* documents in the ships collection
MaxInFlight == 2    \* updateOne commands sent to the store and not yet answered
MaxTime    == 2     \* readings of the clock

\* The default limit of getRecentShips (server.js:142).
RecentLimit == 10

SockIds   == 1..MaxSockets
ClientIds == 1..MaxClients
Msgs      == 1..MaxMsg

\* `null` of the module-level handles (server.js:70-71)
Null == 0

VARIABLES
  aisConnection,     \* server.js:70  Null or the id of an upstream transport
  reconnectTimeout,  \* server.js:71  Null or the id of the timer last scheduled
  isConnecting,      \* server.js:72
  sockets,           \* lifecycle state of every upstream transport created
  nSockets,          \* number of upstream transports created so far
  timers,            \* reconnect timers scheduled and neither fired nor cleared
  timerN,            \* history: whether a subscriber was registered when each
                     \* timer was scheduled
  clients,           \* wss.clients in insertion order: the transport state of
                     \* each registered subscriber socket
  out,               \* what the last callback sent, in order
  last,              \* which callback ran last
  crashed,           \* an exception escaped a callback: the process is gone
  arrivals,          \* history: the payloads received from upstream, in order
  inbox,             \* history: for each registered subscriber, the ship_data
                     \* payloads that reached it, in order
  shipsCollection,   \* server.js:15  "null" or "ships"
  ships,             \* the documents of the ships collection, a bag
  saves,             \* the upserts of saveShipToDatabase in flight at the store
  now,               \* the clock read by new Date()
  stats              \* where a getShipStats call stands between its two counts

\* The program and what it sent in its last callback.
cvars == <<aisConnection, reconnectTimeout, isConnecting, sockets, nSockets,
           timers, timerN, clients, out, last, crashed>>

\* The delivery history, recorded only under RelaySpec.
hvars == <<arrivals, inbox>>

\* The transit store, the clock and the store functions in progress.
svars == <<shipsCollection, ships, saves, now, stats>>

vars == <<cvars, hvars, svars>>

\* Lifecycle of an upstream transport.  NONE: not created.  ABORTING: close()
\* was called during the handshake, its error and close callbacks are pending.
\* CLOSING: an established transport is going down, its close callback is
\* pending.  Both report readyState CLOSING.
SockStates == {"NONE", "CONNECTING", "OPEN", "ABORTING", "CLOSING", "CLOSED"}

\* A registered subscriber socket is named by its position in wss.clients.
\* BROKEN: the transport has failed but the socket still reports readyState
\* OPEN (its close event has not been delivered yet).  CLOSING: a close
\* handshake is in progress, the socket is still registered.
ClientStates == {"OPEN", "BROKEN", "CLOSING"}

\* ws readyState === WebSocket.OPEN, as the program reads it
SockReadyOpen(s) == sockets[s] = "OPEN"
ClientReadyOpen(c) == clients[c] \in {"OPEN", "BROKEN"}

\* wss.clients.size
ClientCount == Len(clients)

\* ------------------------------------------------------------- envelopes
StatusEnvelope(message, connected) ==
  [type |-> "status", message |-> message, connected |-> connected]

ShipDataEnvelope(m) == [type |-> "ship_data", data |-> m]

Subscription == [type |-> "subscription"]

ToClient(c, env) == [dst |-> "client", id |-> c, env |-> env]
ToUpstream(s, env) == [dst |-> "upstream", id |-> s, env |-> env]

\* ------------------------------------------------------------ broadcast
\* client.send(data) on a subscriber whose transport has failed: the frame is
\* lost, nothing is thrown, the loop goes on.
SendDelivers(c) == clients[c] = "OPEN"

\* broadcastToClients(message): forEach over wss.clients in insertion order,
\* sending to those whose readyState is OPEN.  The result is the sequence of
\* frames that reach a subscriber.  It never changes wss.clients.
RECURSIVE BroadcastFrom(_, _)
BroadcastFrom(i, env) ==
  IF i > Len(clients) THEN <<>>
  ELSE LET rest == BroadcastFrom(i + 1, env)
       IN IF ClientReadyOpen(i) /\ SendDelivers(i)
          THEN <<ToClient(i, env)>> \o rest
          ELSE rest

\* A fan-out that reaches every subscriber twice.
broadcastTwice(env) == BroadcastFrom(1, env) \o BroadcastFrom(1, env)

broadcastToClients(env) == BroadcastFrom(1, env)

\* --------------------------------------------------- connectToAISStream
\* The guard of connectToAISStream: it returns early only on isConnecting.
ConnectReturnsEarly == isConnecting

\* connectToAISStream(): creates transport nSockets+1 and makes it the handle,
\* unless it returns early.
connectToAISStream ==
  IF ConnectReturnsEarly
  THEN UNCHANGED <<aisConnection, isConnecting, sockets, nSockets>>
  ELSE /\ nSockets < MaxSockets
       /\ isConnecting' = TRUE
       /\ nSockets' = nSockets + 1
       /\ aisConnection' = nSockets + 1
       /\ sockets' = [sockets EXCEPT ![nSockets + 1] = "CONNECTING"]

\* aisConnection.close(): aborts a handshake in flight, starts the closing
\* handshake of an open transport, does nothing to one already going down.
AfterClose(st) ==
  CASE st = "CONNECTING" -> "ABORTING"
    [] st = "OPEN"       -> "CLOSING"
    [] OTHER             -> st

\* The process after an uncaught exception: every socket and timer is gone.
Crash(op, id) ==
  /\ crashed' = TRUE
  /\ aisConnection' = Null
  /\ reconnectTimeout' = Null
  /\ isConnecting' = FALSE
  /\ sockets' = [s \in SockIds |-> IF sockets[s] = "NONE" THEN "NONE" ELSE "CLOSED"]
  /\ nSockets' = nSockets
  /\ timers' = {}
  /\ timerN' = [s \in SockIds |-> FALSE]
  /\ clients' = <<>>
  /\ out' = <<>>
  /\ last' = [op |-> op, id |-> id]

\* ---------------------------------------------------------- transit store
Times     == 1..MaxTime
DayStarts == {1, 3}             \* the clock readings at local midnight
Mmsis     == {1, 2}             \* MetaData.MMSI

\* A position report with MetaData.  ShipName "": absent or blank; ShipType "":
\* absent; Sog 0: also when absent.
PositionReport(mmsi, name, type, sog) ==
  [MessageType |-> "PositionReport", MMSI |-> mmsi, ShipName |-> name,
   ShipType |-> type, Sog |-> sog]

\* The position reports upstream sends: one vessel reported fast with its name
\* and type, the same vessel reported slower with neither, and another vessel
\* at rest.
PositionReports ==
  {PositionReport(1, "A", "cargo", 9), PositionReport(1, "", "", 4),
   PositionReport(2, "B", "", 0)}
OtherMessage == [MessageType |-> "Other"]
Messages == PositionReports \cup {OtherMessage}

Max(a, b) == IF a >= b THEN a ELSE b

\* today.setHours(0, 0, 0, 0) (server.js:170): the last midnight not after t.
StartOfDay(t) == CHOOSE d \in DayStarts : d <= t /\ \A e \in DayStarts : e <= t => e <= d

\* server.js:224-230
shipInfo(message) ==
  [mmsi      |-> message.MMSI,
   name      |-> IF message.ShipName = "" THEN "Unknown" ELSE message.ShipName,
   type      |-> message.ShipType,
   speed     |-> message.Sog,
   direction |-> "null"]

\* server.js:79-91, built at clock reading t
shipRecord(shipData, t) ==
  [mmsi        |-> shipData.mmsi,
   name        |-> shipData.name,
   type        |-> IF shipData.type = "" THEN "Unknown" ELSE shipData.type,
   destination |-> "null",
   dimensions  |-> "null",
   firstSeen   |-> t,
   lastSeen    |-> t,
   direction   |-> shipData.direction,
   maxSpeed    |-> shipData.speed,
   passedBridge |-> FALSE,
   passedBridgeTime |-> Null]

\* The updateOne command of server.js:93-115: filter {mmsi, passedBridge: false},
\* $set, $setOnInsert, upsert.  pc: "sent", or "insert" once the store found no
\* document matching the filter.
UpsertRequest(shipData, t) ==
  [mmsi |-> shipData.mmsi,
   set  |-> [lastSeen  |-> t,
             direction |-> shipData.direction,
             maxSpeed  |-> Max(shipData.speed, shipRecord(shipData, t).maxSpeed)],
   setOnInsert |-> [mmsi        |-> shipRecord(shipData, t).mmsi,
                    name        |-> shipRecord(shipData, t).name,
                    type        |-> shipRecord(shipData, t).type,
                    destination |-> shipRecord(shipData, t).destination,
                    dimensions  |-> shipRecord(shipData, t).dimensions,
                    firstSeen   |-> shipRecord(shipData, t).firstSeen],
   pc |-> "sent"]

\* The synchronous part of saveShipToDatabase (server.js:75-93): nothing without
\* a collection, otherwise the upsert is sent to the store.  The result is the
\* new value of saves.
saveShipToDatabase(shipData) ==
  IF shipsCollection = "null" THEN saves
  ELSE saves (+) SetToBag({UpsertRequest(shipData, now)})

\* The documents of docs matching the filter {mmsi: mmsi, passedBridge: false}.
OpenDocs(docs, mmsi) ==
  {d \in BagToSet(docs) : d.mmsi = mmsi /\ ~d.passedBridge}

\* The documents of docs matching {passedBridge: true}.
PassedDocs(docs) == {d \in BagToSet(docs) : d.passedBridge}

\* countDocuments: how many documents of docs are among those of the set S.
Count(docs, S) == BagCardinality([d \in S |-> docs[d]])

\* docs with one copy of document d replaced by e.
Replace(docs, d, e) == (docs (-) SetToBag({d})) (+) SetToBag({e})

\* An update that also writes the name of the report into the document.
ApplySetAndName(doc, req) ==
  [doc EXCEPT !.lastSeen = req.set.lastSeen, !.direction = req.set.direction,
              !.maxSpeed = req.set.maxSpeed, !.name = req.setOnInsert.name]

\* The update of a matching document: $set only (server.js:99-103).
ApplySet(doc, req) ==
  [doc EXCEPT !.lastSeen = req.set.lastSeen, !.direction = req.set.direction,
              !.maxSpeed = req.set.maxSpeed]

\* The document an upsert inserts: the equality fields of the filter, $set and
\* $setOnInsert (server.js:94-112).  passedBridgeTime is not among them.
InsertedDoc(req) ==
  [mmsi        |-> req.setOnInsert.mmsi,
   name        |-> req.setOnInsert.name,
   type        |-> req.setOnInsert.type,
   destination |-> req.setOnInsert.destination,
   dimensions  |-> req.setOnInsert.dimensions,
   firstSeen   |-> req.setOnInsert.firstSeen,
   lastSeen    |-> req.set.lastSeen,
   direction   |-> req.set.direction,
   maxSpeed    |-> req.set.maxSpeed,
   passedBridge |-> FALSE,
   passedBridgeTime |-> Null]

\* The collections updateOne({mmsi, passedBridge: false}, {$set: {passedBridge:
\* true, passedBridgeTime: t}}) can leave (server.js:127-135): at most one
\* matching document is changed, whichever the store finds first.
Marked(docs, mmsi, t) ==
  IF OpenDocs(docs, mmsi) = {} THEN {docs}
  ELSE {Replace(docs, d, [d EXCEPT !.passedBridge = TRUE, !.passedBridgeTime = t]) :
          d \in OpenDocs(docs, mmsi)}

\* ------------------------------------------------------------------ Init
\* The state when the server starts to listen, but for shipsCollection.
InitProgram ==
  /\ aisConnection = Null
  /\ reconnectTimeout = Null
  /\ isConnecting = FALSE
  /\ sockets = [s \in SockIds |-> "NONE"]
  /\ nSockets = 0
  /\ timers = {}
  /\ timerN = [s \in SockIds |-> FALSE]
  /\ clients = <<>>
  /\ out = <<>>
  /\ last = [op |-> "Init", id |-> 0]
  /\ crashed = FALSE
  /\ arrivals = <<>>
  /\ inbox = <<>>
  /\ ships = EmptyBag
  /\ saves = EmptyBag
  /\ now = 1
  /\ stats = [pc |-> "idle", total |-> 0]

\* connectToMongoDB failed (server.js:32-35): the relay runs without a store.
Init == InitProgram /\ shipsCollection = "null"

\* connectToMongoDB failed or succeeded (server.js:18-36); then a subscriber
\* connected, the upstream transport it started opened, a second subscriber
\* connected and began to close: the state after ClientConnect, UpstreamOpen(1),
\* ClientConnect, ClientClosing(2).
StoreInit ==
  /\ aisConnection = 1
  /\ reconnectTimeout = Null
  /\ isConnecting = FALSE
  /\ sockets = [s \in SockIds |-> IF s = 1 THEN "OPEN" ELSE "NONE"]
  /\ nSockets = 1
  /\ timers = {}
  /\ timerN = [s \in SockIds |-> FALSE]
  /\ clients = <<"OPEN", "CLOSING">>
  /\ out = <<>>
  /\ last = [op |-> "ClientClosing", id |-> 0]
  /\ crashed = FALSE
  /\ arrivals = <<>>
  /\ inbox = <<>>
  /\ shipsCollection \in {"null", "ships"}
  /\ ships = EmptyBag
  /\ saves = EmptyBag
  /\ now = 1
  /\ stats = [pc |-> "idle", total |-> 0]

\* ------------------------------------------------- subscriber callbacks
\* wss.on('connection'): the socket is already in wss.clients when the handler
\* runs.  It always sends the welcome status, then either starts the upstream
\* or, if the handle is open, reports 'AISStream active'.
ClientConnect ==
  /\ ~crashed
  /\ Len(clients) < MaxClients
  /\ clients' = Append(clients, "OPEN")
  /\ LET c == Len(clients) + 1
         welcome == ToClient(c, StatusEnvelope("Connected to proxy server", TRUE))
         active  == ToClient(c, StatusEnvelope("AISStream active", TRUE))
     IN IF aisConnection = Null /\ ~isConnecting
        THEN /\ connectToAISStream
             /\ out' = <<welcome>>
        ELSE /\ UNCHANGED <<aisConnection, isConnecting, sockets, nSockets>>
             /\ out' = IF aisConnection # Null /\ SockReadyOpen(aisConnection)
                       THEN <<welcome, active>>
                       ELSE <<welcome>>
  /\ last' = [op |-> "ClientConnect", id |-> 0]
  /\ UNCHANGED <<reconnectTimeout, timers, timerN, crashed>>

\* A subscriber's transport fails; the program has not been told yet.
ClientTransportFails(c) ==
  /\ ~crashed
  /\ c \in DOMAIN clients
  /\ clients[c] = "OPEN"
  /\ clients' = [clients EXCEPT ![c] = "BROKEN"]
  /\ out' = <<>>
  /\ last' = [op |-> "ClientTransportFails", id |-> 0]
  /\ UNCHANGED <<aisConnection, reconnectTimeout, isConnecting, sockets, nSockets,
                 timers, timerN, crashed>>

\* A subscriber starts the closing handshake: readyState CLOSING, still in
\* wss.clients until its close event.
ClientClosing(c) ==
  /\ ~crashed
  /\ c \in DOMAIN clients
  /\ clients[c] \in {"OPEN", "BROKEN"}
  /\ clients' = [clients EXCEPT ![c] = "CLOSING"]
  /\ out' = <<>>
  /\ last' = [op |-> "ClientClosing", id |-> 0]
  /\ UNCHANGED <<aisConnection, reconnectTimeout, isConnecting, sockets, nSockets,
                 timers, timerN, crashed>>

\* wss.clients after the library has deleted the socket at position c.
Without(c) ==
  [j \in 1..(Len(clients) - 1) |-> IF j < c THEN clients[j] ELSE clients[j + 1]]

\* ws.on('close'): the library has removed the socket from wss.clients before
\* the handler runs.  With no client left the handler closes the transport the
\* handle names, nulls the handle and clears the timer reconnectTimeout names.
ClientClose(c) ==
  /\ ~crashed
  /\ c \in DOMAIN clients
  /\ clients' = Without(c)
  /\ IF Len(clients') = 0
     THEN /\ sockets' = IF aisConnection # Null
                        THEN [sockets EXCEPT ![aisConnection] = AfterClose(@)]
                        ELSE sockets
          /\ aisConnection' = Null
          /\ timers' = timers \ {reconnectTimeout}
          /\ reconnectTimeout' = Null
     ELSE UNCHANGED <<sockets, aisConnection, timers, reconnectTimeout>>
  /\ out' = <<>>
  /\ last' = [op |-> "ClientClose", id |-> 0]
  /\ UNCHANGED <<isConnecting, nSockets, timerN, crashed>>

\* --------------------------------------------------- upstream callbacks
\* aisConnection.send(subscription) in the open callback: what the call does,
\* given the transport the handle names at that moment.
\*   "throw"  an exception leaves the callback (null handle: TypeError; a
\*            transport still CONNECTING: ws throws)
\*   "send"   the frame is written to the transport the handle names
\*   "either" the handle names a transport already going down: ws throws or
\*            drops the frame depending on its version
SubscribeOutcome(s) ==
  CASE aisConnection = Null -> "throw"
    [] aisConnection = s -> "send"
    [] sockets[aisConnection] = "OPEN" -> "send"
    [] sockets[aisConnection] = "CONNECTING" -> "throw"
    [] OTHER -> "either"

\* aisConnection.on('open') of transport s
UpstreamOpen(s) ==
  /\ ~crashed
  /\ sockets[s] = "CONNECTING"
  /\ \E throws \in BOOLEAN :
       /\ CASE SubscribeOutcome(s) = "throw" -> throws
            [] SubscribeOutcome(s) = "send" -> ~throws
            [] OTHER -> TRUE
       /\ IF throws
          THEN Crash("UpstreamOpen", s)
          ELSE /\ sockets' = [sockets EXCEPT ![s] = "OPEN"]
               /\ isConnecting' = FALSE
               /\ out' = (IF SubscribeOutcome(s) = "send"
                          THEN <<ToUpstream(aisConnection, Subscription)>>
                          ELSE <<>>)
                         \o broadcastToClients(StatusEnvelope("Connected to AISStream", TRUE))
               /\ last' = [op |-> "UpstreamOpen", id |-> s]
               /\ UNCHANGED <<aisConnection, reconnectTimeout, nSockets, timers,
                              timerN, clients, crashed>>

\* A message callback that saves whatever it was handed, parsed or not.
SavedUnparsed(ok, message) == message.MessageType = "PositionReport"

\* A message callback that forwards only what it could hand to the store.
RelayedIfStored(ok, message) ==
  ok /\ (message.MessageType = "PositionReport" => shipsCollection # "null")

\* The try block reaches the save of server.js:233: JSON.parse did not throw
\* and the message is a position report with MetaData.
Saved(ok, message) == ok /\ message.MessageType = "PositionReport"

\* The try block reaches the broadcast of server.js:239: JSON.parse did not
\* throw.  The save is not awaited and its rejection is caught (233-235).
Relayed(ok, message) == ok

\* aisConnection.on('message') of transport s.  m: the payload; ok: JSON.parse
\* succeeds; message: what it parses to.  A parse failure is caught and logged,
\* nothing else happens.
UpstreamMessage(s, m, ok, message) ==
  /\ ~crashed
  /\ sockets[s] = "OPEN"
  /\ saves' = IF Saved(ok, message) THEN saveShipToDatabase(shipInfo(message))
              ELSE saves
  /\ BagCardinality(saves') <= MaxInFlight
  /\ out' = IF Relayed(ok, message) THEN broadcastToClients(ShipDataEnvelope(m))
            ELSE <<>>
  /\ last' = [op |-> IF ok THEN "UpstreamMessage" ELSE "UpstreamBadMessage", id |-> s]
  /\ UNCHANGED <<aisConnection, reconnectTimeout, isConnecting, sockets, nSockets,
                 timers, timerN, clients, crashed>>
  /\ UNCHANGED <<shipsCollection, ships, now, stats>>

\* A handshake fails, or a handshake aborted by close() is reported: ws emits
\* 'error' and 'close' on transport s back to back, so the error callback and
\* the close callback run in one step, in that order.
UpstreamConnectError(s) ==
  /\ ~crashed
  /\ sockets[s] \in {"CONNECTING", "ABORTING"}
  /\ sockets' = [sockets EXCEPT ![s] = "CLOSED"]
  /\ isConnecting' = FALSE
  /\ aisConnection' = Null
  /\ out' = broadcastToClients(StatusEnvelope("AISStream connection error", FALSE))
            \o broadcastToClients(StatusEnvelope("Disconnected from AISStream", FALSE))
  /\ timers' = timers \cup {s}
  /\ reconnectTimeout' = s
  /\ timerN' = [timerN EXCEPT ![s] = (ClientCount > 0)]
  /\ last' = [op |-> "UpstreamConnectError", id |-> s]
  /\ UNCHANGED <<nSockets, clients, crashed>>

\* aisConnection.on('error') of an open transport s.  The transport goes down,
\* its close callback follows.
UpstreamError(s) ==
  /\ ~crashed
  /\ sockets[s] = "OPEN"
  /\ sockets' = [sockets EXCEPT ![s] = "CLOSING"]
  /\ isConnecting' = FALSE
  /\ out' = broadcastToClients(StatusEnvelope("AISStream connection error", FALSE))
  /\ last' = [op |-> "UpstreamError", id |-> s]
  /\ UNCHANGED <<aisConnection, reconnectTimeout, nSockets, timers, timerN,
                 clients, crashed>>

\* The peer or the network ends an open transport: readyState leaves OPEN, the
\* close callback is pending.
UpstreamPeerClose(s) ==
  /\ ~crashed
  /\ sockets[s] = "OPEN"
  /\ sockets' = [sockets EXCEPT ![s] = "CLOSING"]
  /\ out' = <<>>
  /\ last' = [op |-> "UpstreamPeerClose", id |-> s]
  /\ UNCHANGED <<aisConnection, reconnectTimeout, isConnecting, nSockets, timers,
                 timerN, clients, crashed>>

\* aisConnection.on('close') of transport s: clears the flag and the handle
\* (whatever transport the handle names), broadcasts, and schedules a reconnect
\* timer unconditionally, overwriting reconnectTimeout.  The timer is named
\* after the transport whose close scheduled it.
UpstreamClose(s) ==
  /\ ~crashed
  /\ sockets[s] = "CLOSING"
  /\ sockets' = [sockets EXCEPT ![s] = "CLOSED"]
  /\ isConnecting' = FALSE
  /\ aisConnection' = Null
  /\ out' = broadcastToClients(StatusEnvelope("Disconnected from AISStream", FALSE))
  /\ timers' = timers \cup {s}
  /\ reconnectTimeout' = s
  /\ timerN' = [timerN EXCEPT ![s] = (ClientCount > 0)]
  /\ last' = [op |-> "UpstreamClose", id |-> s]
  /\ UNCHANGED <<nSockets, clients, crashed>>

\* A reconnect callback that decides on the subscriber count it saw when the
\* timer was scheduled.
ReconnectWantedAtSchedule(t) == timerN[t]

\* The test of the reconnect callback, evaluated when timer t fires.
ReconnectWanted(t) == ClientCount > 0

\* The setTimeout callback of timer t.  reconnectTimeout keeps naming the timer
\* after it has fired.
TimerFire(t) ==
  /\ ~crashed
  /\ t \in timers
  /\ timers' = timers \ {t}
  /\ IF ReconnectWanted(t)
     THEN connectToAISStream
     ELSE UNCHANGED <<aisConnection, isConnecting, sockets, nSockets>>
  /\ out' = <<>>
  /\ last' = [op |-> "TimerFire", id |-> t]
  /\ UNCHANGED <<reconnectTimeout, timerN, clients, crashed>>

\* --------------------------------------------------------- store functions
\* The store looks for a document matching the filter of an upsert in flight.
\* It updates one that matches in the same step; the await of server.js:93
\* resumes and saveShipToDatabase returns.  With none, it goes on to insert:
\* the collection has no unique index (server.js:26-28), so nothing makes the
\* search and the insert one step against other upserts.
SaveUpsert(req) ==
  /\ req \in BagToSet(saves)
  /\ req.pc = "sent"
  /\ \/ /\ OpenDocs(ships, req.mmsi) # {}
        /\ \E d \in OpenDocs(ships, req.mmsi) : ships' = Replace(ships, d, ApplySet(d, req))
        /\ saves' = saves (-) SetToBag({req})
     \/ /\ OpenDocs(ships, req.mmsi) = {}
        /\ saves' = (saves (-) SetToBag({req})) (+) SetToBag({[req EXCEPT !.pc = "insert"]})
        /\ ships' = ships
  /\ UNCHANGED <<cvars, shipsCollection, now, stats>>

\* The store inserts the document of an upsert that found no match; the await
\* of server.js:93 resumes and saveShipToDatabase returns.
SaveInsert(req) ==
  /\ req \in BagToSet(saves)
  /\ req.pc = "insert"
  /\ BagCardinality(ships) < MaxDocs
  /\ ships' = ships (+) SetToBag({InsertedDoc(req)})
  /\ saves' = saves (-) SetToBag({req})
  /\ UNCHANGED <<cvars, shipsCollection, now, stats>>

\* The upsert fails at the store: updateOne rejects, the catch of
\* server.js:118-120 logs, saveShipToDatabase returns.
SaveFails(req) ==
  /\ req \in BagToSet(saves)
  /\ saves' = saves (-) SetToBag({req})
  /\ UNCHANGED <<cvars, shipsCollection, ships, now, stats>>

\* markShipAsPassed(mmsi, name) (server.js:123-140); fails: updateOne rejects
\* and the catch logs.  It returns undefined in every case.
markShipAsPassed(mmsi, fails) ==
  /\ ~crashed
  /\ IF shipsCollection = "null" \/ fails
     THEN ships' = ships
     ELSE ships' \in Marked(ships, mmsi, now)
  /\ UNCHANGED <<cvars, shipsCollection, saves, now, stats>>

\* The row getRecentShips makes of a document (server.js:152-157).
RecentRow(doc) ==
  [mmsi |-> doc.mmsi, name |-> doc.name, direction |-> doc.direction,
   passedTime |-> doc.passedBridgeTime]

\* find({passedBridge: true}).sort({passedBridgeTime: -1}).limit(limit): the
\* sequences of at most limit passed documents, latest first, ties in any order.
RecentDocs(limit) ==
  LET P == PassedDocs(ships)
      n == IF Count(ships, P) < limit THEN Count(ships, P) ELSE limit
      Used(q, d) == Cardinality({i \in 1..n : q[i] = d})
  IN {q \in [1..n -> P] :
        /\ \A d \in P : Used(q, d) <= ships[d]
        /\ \A i, j \in 1..n : i < j => q[i].passedBridgeTime >= q[j].passedBridgeTime
        /\ \A d \in P : Used(q, d) < ships[d] =>
             \A i \in 1..n : d.passedBridgeTime <= q[i].passedBridgeTime}

\* What getRecentShips(limit) can return (server.js:143-161); fails: the query
\* rejects.
getRecentShipsReturns(limit, fails) ==
  IF shipsCollection = "null" \/ fails THEN {<<>>}
  ELSE {[i \in DOMAIN q |-> RecentRow(q[i])] : q \in RecentDocs(limit)}

\* getRecentShips(limit) (server.js:142-162): a read, it changes nothing.
getRecentShips(limit, fails) ==
  /\ ~crashed
  /\ getRecentShipsReturns(limit, fails) # {}
  /\ UNCHANGED vars

\* What getShipStats returns that is not null.
Stats(total, today) == [null |-> FALSE, total |-> total, today |-> today]

\* The null getShipStats returns (server.js:165, 180).
NullStats == [null |-> TRUE, total |-> 0, today |-> 0]

\* getShipStats up to the answer of its first count (server.js:164-168);
\* fails: the count rejects.  Without a collection, or when the count fails,
\* it returns null.
getShipStatsTotal(fails) ==
  /\ ~crashed
  /\ stats.pc = "idle"
  /\ stats' = IF shipsCollection = "null" \/ fails THEN stats
              ELSE [pc |-> "counted", total |-> Count(ships, PassedDocs(ships))]
  /\ UNCHANGED <<cvars, shipsCollection, ships, saves, now>>

\* The documents of docs matching
\* {passedBridge: true, passedBridgeTime: {$gte: today}}.
PassedSince(docs, today) ==
  {d \in PassedDocs(docs) : d.passedBridgeTime >= today}

\* What getShipStats returns once its second count is answered
\* (server.js:169-181); fails: the second count rejects.
getShipStatsReturns(fails) ==
  IF fails THEN NullStats
  ELSE Stats(stats.total, Count(ships, PassedSince(ships, StartOfDay(now))))

\* getShipStats from the answer of its first count to its return
\* (server.js:169-181).
getShipStatsToday(fails) ==
  /\ ~crashed
  /\ stats.pc = "counted"
  /\ stats' = [pc |-> "idle", total |-> 0]
  /\ UNCHANGED <<cvars, shipsCollection, ships, saves, now>>

\* The clock advances.
Tick ==
  /\ now < MaxTime
  /\ now' = now + 1
  /\ UNCHANGED <<cvars, shipsCollection, ships, saves, stats>>

\* ------------------------------------------------------------------ Next
Next ==
  \/ ClientConnect /\ UNCHANGED <<hvars, svars>>
  \/ \E c \in ClientIds : ClientTransportFails(c) /\ UNCHANGED <<hvars, svars>>
  \/ \E c \in ClientIds : ClientClosing(c) /\ UNCHANGED <<hvars, svars>>
  \/ \E c \in ClientIds : ClientClose(c) /\ UNCHANGED <<hvars, svars>>
  \/ \E s \in SockIds : UpstreamOpen(s) /\ UNCHANGED <<hvars, svars>>
  \/ \E s \in SockIds, m \in Msgs, ok \in BOOLEAN, message \in Messages :
       UpstreamMessage(s, m, ok, message) /\ UNCHANGED hvars
  \/ \E s \in SockIds : UpstreamConnectError(s) /\ UNCHANGED <<hvars, svars>>
  \/ \E s \in SockIds : UpstreamError(s) /\ UNCHANGED <<hvars, svars>>
  \/ \E s \in SockIds : UpstreamPeerClose(s) /\ UNCHANGED <<hvars, svars>>
  \/ \E s \in SockIds : UpstreamClose(s) /\ UNCHANGED <<hvars, svars>>
  \/ \E t \in SockIds : TimerFire(t) /\ UNCHANGED <<hvars, svars>>

\* The connection lifecycle and the fan-out of a relay that runs without a
\* store, without the delivery history.
Spec == Init /\ [][Next]_vars

\* The message callback, the store functions and the store's own steps, while
\* the subscribers and the upstream transport stay as they are.  The payload
\* is always the same: the store does not see it.
StoreNext ==
  \/ \E s \in SockIds, m \in {1}, ok \in BOOLEAN, message \in Messages :
       UpstreamMessage(s, m, ok, message) /\ UNCHANGED hvars
  \/ \E req \in BagToSet(saves) : SaveUpsert(req) /\ UNCHANGED hvars
  \/ \E req \in BagToSet(saves) : SaveInsert(req) /\ UNCHANGED hvars
  \/ \E req \in BagToSet(saves) : SaveFails(req) /\ UNCHANGED hvars
  \/ \E mmsi \in Mmsis, fails \in BOOLEAN : markShipAsPassed(mmsi, fails) /\ UNCHANGED hvars
  \/ \E limit \in {1, RecentLimit}, fails \in BOOLEAN : getRecentShips(limit, fails)
  \/ \E fails \in BOOLEAN : getShipStatsTotal(fails) /\ UNCHANGED hvars
  \/ \E fails \in BOOLEAN : getShipStatsToday(fails) /\ UNCHANGED hvars
  \/ Tick /\ UNCHANGED hvars

\* The relay with its store, attached or not.
StoreSpec == StoreInit /\ [][StoreNext]_vars

\* No store function is in progress.
StoreIdle == saves = EmptyBag /\ stats.pc = "idle"

\* StoreNext for the runs in which the calls of the store functions do not
\* overlap: each returns before the next message arrives or the next is called.
SerialNext ==
  \/ \E s \in SockIds, m \in {1}, ok \in BOOLEAN, message \in Messages :
       StoreIdle /\ UpstreamMessage(s, m, ok, message) /\ UNCHANGED hvars
  \/ \E req \in BagToSet(saves) : SaveUpsert(req) /\ UNCHANGED hvars
  \/ \E req \in BagToSet(saves) : SaveInsert(req) /\ UNCHANGED hvars
  \/ \E req \in BagToSet(saves) : SaveFails(req) /\ UNCHANGED hvars
  \/ \E mmsi \in Mmsis, fails \in BOOLEAN :
       StoreIdle /\ markShipAsPassed(mmsi, fails) /\ UNCHANGED hvars
  \/ \E limit \in {1, RecentLimit}, fails \in BOOLEAN :
       StoreIdle /\ getRecentShips(limit, fails)
  \/ \E fails \in BOOLEAN : StoreIdle /\ getShipStatsTotal(fails) /\ UNCHANGED hvars
  \/ \E fails \in BOOLEAN : getShipStatsToday(fails) /\ UNCHANGED hvars
  \/ Tick /\ UNCHANGED hvars

\* The relay with its store, attached or not, used by one call at a time.
SerialSpec == StoreInit /\ [][SerialNext]_vars

\* ------------------------------------------------------ delivery history
\* The ship_data payloads of the last callback that reached subscriber c.
RECURSIVE ShipDataFrom(_, _)
ShipDataFrom(i, c) ==
  IF i > Len(out) THEN <<>>
  ELSE (IF out[i].dst = "client" /\ out[i].id = c /\ out[i].env.type = "ship_data"
        THEN <<out[i].env.data>> ELSE <<>>) \o ShipDataFrom(i + 1, c)

\* inbox after a callback that leaves wss.clients as it is: every subscriber
\* gets what the callback sent to it.
Delivered == [c \in DOMAIN inbox |-> inbox[c] \o ShipDataFrom(1, c)']

\* inbox after the subscriber at position c was deleted from wss.clients.
InboxWithout(c) ==
  [j \in 1..(Len(inbox) - 1) |-> IF j < c THEN inbox[j] ELSE inbox[j + 1]]

\* The callbacks of the runs in which no transport fails and no timer fires,
\* with the delivery history recorded.  Upstream sends the payloads
\* 1, 2, .. MaxMsg, each once, so a payload names its place in the arrival order.
RelayNext ==
  \/ ClientConnect /\ inbox' = Append(inbox, <<>>) /\ UNCHANGED <<arrivals, svars>>
  \/ \E c \in ClientIds : ClientClosing(c) /\ UNCHANGED <<hvars, svars>>
  \/ \E c \in ClientIds :
       ClientClose(c) /\ inbox' = InboxWithout(c) /\ UNCHANGED <<arrivals, svars>>
  \/ \E s \in SockIds :
       /\ UpstreamOpen(s)
       /\ inbox' = IF crashed' THEN <<>> ELSE inbox
       /\ UNCHANGED <<arrivals, svars>>
  \/ \E s \in SockIds, m \in Msgs, ok \in BOOLEAN, message \in Messages :
       /\ m = Len(arrivals) + 1
       /\ UpstreamMessage(s, m, ok, message)
       /\ arrivals' = Append(arrivals, m)
       /\ inbox' = Delivered
  \/ \E s \in SockIds : UpstreamClose(s) /\ UNCHANGED <<hvars, svars>>

RelaySpec == Init /\ [][RelayNext]_vars

TypeOK ==
  /\ aisConnection \in SockIds \cup {Null}
  /\ reconnectTimeout \in SockIds \cup {Null}
  /\ isConnecting \in BOOLEAN
  /\ sockets \in [SockIds -> SockStates]
  /\ nSockets \in 0..MaxSockets
  /\ \A s \in SockIds : (sockets[s] = "NONE") <=> (s > nSockets)
  /\ timers \subseteq {s \in SockIds : sockets[s] = "CLOSED"}
  /\ timerN \in [SockIds -> BOOLEAN]
  /\ clients \in Seq(ClientStates)
  /\ Len(clients) <= MaxClients
  /\ crashed \in BOOLEAN
  /\ shipsCollection \in {"null", "ships"}
  /\ BagCardinality(ships) <= MaxDocs
  /\ \A d \in BagToSet(ships) :
       /\ d.mmsi \in Mmsis
       /\ d.firstSeen \in Times /\ d.lastSeen \in Times
       /\ d.passedBridge <=> d.passedBridgeTime # Null
  /\ BagCardinality(saves) <= MaxInFlight
  /\ now \in Times
  /\ stats.pc \in {"idle", "counted"}
  /\ shipsCollection = "null" => ships = EmptyBag /\ saves = EmptyBag

\* ------------------------------------------------------------ vocabulary
\* Upstream transports that are connecting or open.
LiveSockets == {s \in SockIds : sockets[s] \in {"CONNECTING", "OPEN"}}

\* The transport the handle names is connecting or open.
HandleLive == aisConnection # Null /\ sockets[aisConnection] \in {"CONNECTING", "OPEN"}

SomeTransportOpen == \E s \in SockIds : sockets[s] = "OPEN"

\* No callback and no timer is pending anywhere.
Quiescent ==
  /\ ~crashed
  /\ \A s \in SockIds : sockets[s] \in {"NONE", "OPEN", "CLOSED"}
  /\ timers = {}
  /\ \A c \in DOMAIN clients : clients[c] = "OPEN"

\* The last callback called broadcastToClients.
LastBroadcast ==
  /\ ~crashed
  /\ last.op \in {"UpstreamOpen", "UpstreamMessage", "UpstreamConnectError",
                 "UpstreamError", "UpstreamClose"}

\* The frames of the last callback that reached subscriber c.
ReceivedBy(c) == {i \in DOMAIN out : out[i].dst = "client" /\ out[i].id = c}

\* ---------------------------------------------------------------- claims
\* C1: at most one upstream transport is connecting or open at any instant.
C1_AtMostOneLiveTransport == Cardinality(LiveSockets) <= 1

\* C2: once every pending callback and timer has been processed, an upstream
\* transport is open if and only if at least one subscriber is registered.
C2_OpenIffSubscribers == Quiescent => (SomeTransportOpen <=> ClientCount > 0)

\* C3: a reconnect timer is scheduled only while at least one subscriber is
\* registered; in particular the close that follows the last subscriber's
\* disconnect schedules none.
C3_TimerOnlyWithSubscribers == [][(timers' \ timers # {}) => ClientCount > 0]_vars

\* C4: a reconnect timer that fires with zero subscribers makes no connection
\* attempt and changes no connection state, and one that fires with a
\* subscriber registered and no connect in flight does make the attempt: the
\* count that decides is the one at fire time.
C4_ReconnectDecidedAtFireTime ==
  [][(last'.op = "TimerFire" /\ ~crashed') =>
       /\ ClientCount = 0 =>
            UNCHANGED <<sockets, nSockets, aisConnection, isConnecting>>
       /\ (ClientCount > 0 /\ ~isConnecting) =>
            /\ nSockets' = nSockets + 1
            /\ aisConnection' = nSockets'
            /\ sockets'[nSockets'] = "CONNECTING"]_vars

\* C4 witness: a timer scheduled while a subscriber was registered has fired
\* with none registered, and no transport is connecting or open afterwards.
C4_Witness ==
  /\ last.op = "TimerFire"
  /\ ~crashed
  /\ ClientCount = 0
  /\ timerN[last.id]
  /\ LiveSockets = {}

\* C5: at most one reconnect timer is outstanding at any time.
C5_AtMostOneTimer == Cardinality(timers) <= 1

\* C6: a subscriber-connect or timer callback that runs while the transport
\* the handle names is connecting or open creates no transport and leaves the
\* connection state (handle, flag, transports) as it was.
C6_StartIdempotent ==
  [][(HandleLive /\ last'.op \in {"ClientConnect", "TimerFire"}) =>
       UNCHANGED <<sockets, nSockets, aisConnection, isConnecting>>]_vars

\* C7: when the subscriber count goes from 0 to 1 while no transport is
\* connecting or open, the same step starts a connection attempt.
C7_FirstSubscriberStartsUpstream ==
  [][(ClientCount = 0 /\ Len(clients') = 1 /\ LiveSockets = {}) =>
       (nSockets' = nSockets + 1 /\ sockets'[nSockets'] = "CONNECTING")]_vars

\* C8: when the last subscriber unregisters, every in-flight or open transport
\* is closed and every pending timer cancelled in that step, and while no
\* subscriber is registered no transport opens and none is created.
C8_FullTeardown ==
  [][/\ (ClientCount = 1 /\ Len(clients') = 0 /\ ~crashed') =>
          (LiveSockets' = {} /\ timers' = {})
     /\ (ClientCount = 0 /\ Len(clients') = 0 /\ ~crashed') =>
          /\ nSockets' = nSockets
          /\ \A s \in SockIds : sockets'[s] = "OPEN" => sockets[s] = "OPEN"]_vars

\* C9: a status envelope sent to a subscriber at registration carries
\* connected = true only when an upstream transport is open at that moment.
C9_WelcomeReflectsUpstream ==
  last.op = "ClientConnect" =>
    \A i \in ReceivedBy(Len(clients)) : out[i].env.connected => SomeTransportOpen

\* C10: after a broadcast every subscriber whose send succeeded has the
\* message, and every subscriber whose send failed has been removed from the
\* live set.
C10_BroadcastIsolatesAndRemoves ==
  LastBroadcast =>
    \A c \in DOMAIN clients :
      /\ clients[c] = "OPEN" => ReceivedBy(c) # {}
      /\ clients[c] # "BROKEN"
\* v is u with some elements left out, the rest in the same order.
RECURSIVE IsSubsequence(_, _)
IsSubsequence(v, u) ==
  IF v = <<>> THEN TRUE
  ELSE IF u = <<>> THEN FALSE
  ELSE IF Head(v) = Head(u) THEN IsSubsequence(Tail(v), Tail(u))
  ELSE IsSubsequence(v, Tail(u))

\* C11: for every registered subscriber, the ship_data payloads it has received
\* are a subsequence of the upstream arrival sequence, in the same order.
C11_PerSubscriberFifo ==
  /\ Len(inbox) = Len(clients)
  /\ \A c \in DOMAIN inbox : IsSubsequence(inbox[c], arrivals)

\* C11 witness: two payloads arrived, on two different transports that were
\* open together; one subscriber received both, another only the second.
C11_Witness ==
  /\ Len(arrivals) = 2
  /\ Cardinality({s \in SockIds : sockets[s] = "OPEN"}) = 2
  /\ \E c, d \in DOMAIN inbox : inbox[c] = arrivals /\ inbox[d] = <<arrivals[2]>>

\* C12: a message that fails to decode is dropped alone: nothing is broadcast,
\* nothing is handed to the store, handle, flag, timers, transports and
\* subscribers stay as they were, and the transport is still open for the
\* messages that follow.
C12_DecodeFailureDropsOnlyThatMessage ==
  [][\A s \in SockIds, m \in Msgs, message \in Messages :
       UpstreamMessage(s, m, FALSE, message) =>
         /\ out' = <<>>
         /\ UNCHANGED <<saves, ships>>
         /\ UNCHANGED <<aisConnection, isConnecting, reconnectTimeout, timers,
                        sockets, clients, crashed>>
         /\ sockets'[s] = "OPEN"]_vars

\* C12 witness: with a store attached and a document in it, the last message
\* failed to decode and nothing was sent.
C12_Witness ==
  /\ last.op = "UpstreamBadMessage"
  /\ out = <<>>
  /\ shipsCollection = "ships"
  /\ ships # EmptyBag

\* The subscribers whose socket is open.
OpenSubscribers == {c \in DOMAIN clients : clients[c] = "OPEN"}

C14_AtMostOneOpenRecord ==
  \A mmsi \in Mmsis : Count(ships, OpenDocs(ships, mmsi)) <= 1

\* C15: an upsert that updates the open record of its mmsi leaves the record
\* with the larger of the speed it had and the speed of the report, so the
\* recorded maximum speed never decreases.
C15_MaxSpeedNeverDecreases ==
  [][\A req \in BagToSet(saves) :
       SaveUpsert(req) =>
         \A d \in OpenDocs(ships, req.mmsi) :
           ships' = Replace(ships, d, ApplySet(d, req)) =>
             ApplySet(d, req).maxSpeed = Max(d.maxSpeed, req.set.maxSpeed)]_vars

\* C16: markShipAsPassed on an mmsi with no open record changes no record, and
\* a second call right after a first one for the same mmsi changes no record
\* either: the passed time of the first call stays and no other record closes.
C16_MarkPassedNoOpAndFirstWins ==
  [][\A mmsi \in Mmsis :
       (shipsCollection # "null" /\ markShipAsPassed(mmsi, FALSE)) =>
         /\ OpenDocs(ships, mmsi) = {} => ships' = ships
         /\ \A t \in Times : Marked(ships', mmsi, t) = {ships'}]_vars

\* C17: a passed record is never reopened nor changed by any later step, and
\* once markShipAsPassed has closed the record of an mmsi no open record of
\* that mmsi is left, so that the upsert of its next position report inserts
\* a new record.
C17_PassedIsOneWay ==
  [][/\ \A d \in PassedDocs(ships) : CopiesIn(d, ships') >= CopiesIn(d, ships)
     /\ \A mmsi \in Mmsis :
          (markShipAsPassed(mmsi, FALSE) /\ ships' # ships) =>
            OpenDocs(ships', mmsi) = {}]_vars

\* C18: what getShipStats returns has today at most total, also when a
\* markShipAsPassed completes between its two counts.
C18_TodayAtMostTotal ==
  stats.pc = "counted" =>
    getShipStatsReturns(FALSE).today <= getShipStatsReturns(FALSE).total

\* C19: an upsert for an mmsi that has an open record changes one open record
\* of that mmsi and leaves its mmsi, name, type, destination, dimensions and
\* firstSeen as they were (and it stays open): only lastSeen, direction and
\* maxSpeed are written.
C19_ObserveKeepsStaticFields ==
  [][\A req \in BagToSet(saves) :
       (SaveUpsert(req) /\ OpenDocs(ships, req.mmsi) # {}) =>
         \E d \in OpenDocs(ships, req.mmsi), e \in BagToSet(ships') :
           /\ ships' = Replace(ships, d, e)
           /\ e.mmsi = d.mmsi /\ e.name = d.name /\ e.type = d.type
           /\ e.destination = d.destination /\ e.dimensions = d.dimensions
           /\ e.firstSeen = d.firstSeen
           /\ e.passedBridge = d.passedBridge
           /\ e.passedBridgeTime = d.passedBridgeTime
           /\ e.lastSeen = req.set.lastSeen /\ e.direction = req.set.direction
           /\ e.maxSpeed = req.set.maxSpeed]_vars

\* C19 witness: the record vessel 1 got from its first report (name "A", type
\* "cargo", first seen at 1) after the later report without name and type
\* updated it at 2: the name, type and first sighting are those of the first.
C19_Witness ==
  \E d \in BagToSet(ships) :
    /\ d.mmsi = 1 /\ d.name = "A" /\ d.type = "cargo" /\ d.firstSeen = 1
    /\ d.lastSeen = 2 /\ d.maxSpeed = 4 /\ ~d.passedBridge

\* C20: when the open callback of a transport runs, the handle names that
\* transport and the subscription request is sent on it, without an
\* exception; the close callback of a transport leaves the handle and the
\* connecting flag of a newer transport alone.
C20_OpenCallbackOwnsHandle ==
  [][\A s \in SockIds :
       /\ UpstreamOpen(s) =>
            /\ aisConnection = s
            /\ ~crashed'
            /\ Len(out') >= 1
            /\ out'[1] = ToUpstream(s, Subscription)
       /\ (UpstreamClose(s) /\ aisConnection # Null /\ aisConnection # s) =>
            UNCHANGED <<aisConnection, isConnecting>>]_vars

====
